---- MODULE Spec2Model ----
(***************************************************************************)
(* net-conn-nats-proxy: a net.Conn tunnelled over NATS request/reply.      *)
(*                                                                         *)
(*   NatsNetConn (adapter)  --bus-->  NatsConnProxy handlers               *)
(*                                      --> NetConnPullManager (pool)      *)
(*                                            --> real net.Conn streams    *)
(*                                                                         *)
(* The model follows the newest revision present in the sources:           *)
(*   src/net_conn_pool.go, src/nats_conn_proxy.go (second half, package    *)
(*   net_conn_nats_proxy) and src/unnamed/part_003 (second half, the       *)
(*   adapter that carries conn-uuid).                                      *)
(***************************************************************************)
EXTENDS Integers, Sequences, FiniteSets, TLC

(***************************************************************************)
(* Bounds of the model.                                                    *)
(***************************************************************************)
\* requests a bare bus client (not an adapter) publishes in one run
MaxRaw == 3
\* Read/Write calls made on the adapters in one run
MaxCalls == 2
\* requests a bare bus client publishes in a run that follows the proxy to its stop
MaxStopRaw == 2
\* Read/Write calls made on an adapter whose requests an arbitrary responder answers
MaxReplyCalls == 1

(***************************************************************************)
(* Wire constants and small input sets.                                    *)
(***************************************************************************)
readSuffix == ".read"
writeSuffix == ".write"
closeSuffix == ".close"
Ops == {readSuffix, writeSuffix, closeSuffix}

\* time.Time values: the zero instant, one instant before now, one after
Instants == {"zero", "past", "future"}

\* time.Time.Format(time.RFC3339Nano)
Format(t) ==
    CASE t = "zero" -> "0001-01-01T00:00:00Z"
      [] t = "past" -> "2000-01-01T00:00:00Z"
      [] t = "future" -> "2999-01-01T00:00:00Z"

\* time.Parse(time.RFC3339Nano, s): err # nil for anything but a formatted time
TimeParse(s) ==
    IF \E t \in Instants : Format(t) = s
    THEN [ok |-> TRUE, t |-> CHOOSE t \in Instants : Format(t) = s]
    ELSE [ok |-> FALSE, t |-> "zero"]

\* time.Time.IsZero
IsZero(t) == t = "zero"

\* a clock for which every instant is still to come
UntilPositiveAlways(t) == TRUE

\* time.Until(t) > 0
UntilPositive(t) == t = "future"

Digits == <<"0", "1", "2", "3", "4", "5", "6", "7", "8", "9">>

RECURSIVE Itoa(_)
\* strconv.Itoa / fmt.Sprintf("%d", n)
Itoa(n) ==
    IF n < 0 THEN "-" \o Itoa(0 - n)
    ELSE IF n < 10 THEN Digits[n + 1]
    ELSE Itoa(n \div 10) \o Digits[(n % 10) + 1]

AtoiRange == (0 - 2) .. 12

\* strconv.Atoi on the strings the model uses: the inverse of Itoa, an error otherwise
Atoi(s) ==
    IF \E n \in AtoiRange : Itoa(n) = s
    THEN [ok |-> TRUE, n |-> CHOOSE n \in AtoiRange : Itoa(n) = s]
    ELSE [ok |-> FALSE, n |-> 0]

\* net.ResolveTCPAddr(network, addr); str is TCPAddr.String() of the result
ResolveTCPAddr(network, addr) ==
    IF network \notin {"tcp", "tcp4", "tcp6"} THEN [ok |-> FALSE, str |-> ""]
    ELSE CASE addr = "127.0.0.1:6379" -> [ok |-> TRUE, str |-> "127.0.0.1:6379"]
           [] addr = "localhost:6379" -> [ok |-> TRUE, str |-> "127.0.0.1:6379"]
           [] OTHER -> [ok |-> FALSE, str |-> ""]

\* (*net.TCPAddr).Network()
TCPNetwork == "tcp"

\* identity tokens as _UUIDFromCryptoRand renders them (hyphenated upper-case hex)
Tokens == {"0A-01", "0B-02"}

\* the adapters of the run and the token NewNatsNetConn drew for each
Adapters == {"a1"}
TokenOf(a) == "0A-01"
AddrOf(a) == "127.0.0.1:6379"

\* bytes the target server sends on every stream it accepts, in order
Feed == <<"x", "y", "z", "x", "y", "z", "x", "y">>

RECURSIVE Str(_)
\* string(bytes)
Str(bs) == IF bs = <<>> THEN "" ELSE Head(bs) \o Str(Tail(bs))

\* payloads handed to Write
Payloads == {"PING"}
\* buffer lengths handed to Read
BufLens == {0, 2}

zeroLenStr == "0"


(***************************************************************************)
(* State.                                                                  *)
(***************************************************************************)
VARIABLES
    reqs,      \* reqs[op]: the requests published on the op subject, in order; the
               \* id of a request is its index there
    replies,   \* replies[op][id]: the reply messages published for that request
    outcome,   \* outcome[op][id]: "pending", "ok", "panic", or the handler's err.Error()
    taken,     \* taken[op]: how many requests the op subscription has handed its handler
    h,         \* h[op]: the goroutine of the op subscription (one callback at a time)
    mu,        \* NetConnPullManager.mu: "" when free, else the handler holding it
    pool,      \* NetConnPullManager.pool: key -> connEnvelop
    conns,     \* the real streams the dial function returned; a stream's id is its index
    dials,     \* every call of the dial function, in order: its arguments, the stream
               \* it returned (0: an error), the handler whose Get made it and the
               \* handlers then waiting in Get for the same key
    crashed,   \* the proxy process died of an unrecovered panic or fatal error
    ad,        \* ad[a]: the NatsNetConn a and the caller using it
    stop       \* the NatsConnProxy's subscriptions, its stopHandler and the goroutine
               \* that Start leaves waiting for ctx.Done()

vars == <<reqs, replies, outcome, taken, h, mu, pool, conns, dials, crashed, ad, stop>>

\* a nats.Msg as a handler reads it
Msg(op, network, addr, uuid, size, dl, data, from) ==
    [op |-> op, network |-> network, addr |-> addr, uuid |-> uuid,
     size |-> size, dl |-> dl, data |-> data, from |-> from]

\* requests a bus client other than the adapter may publish
RawMsgs ==
    {Msg(closeSuffix, "tcp", a, u, "", "", "", "") :
        a \in {"localhost:6379", "nohost"}, u \in Tokens}
    \cup {Msg(readSuffix, "tcp", "localhost:6379", "0A-01", s, "", "", "") :
        s \in {"", "x", "-1", "2"}}
    \cup {Msg(writeSuffix, "tcp", a, "0A-01", "", "", "PING", "") :
        a \in {"localhost:6379", "nohost"}}

\* the payload a client with the token u writes
PayloadOf(u) == IF u = "0A-01" THEN "PING" ELSE "PONG"

\* the well-formed requests of two clients of one endpoint, one per token
TokenMsgs ==
    {Msg(closeSuffix, "tcp", "localhost:6379", u, "", "", "", "") : u \in Tokens}
    \cup {Msg(readSuffix, "tcp", "localhost:6379", u, "2", "", "", "") : u \in Tokens}
    \cup {Msg(writeSuffix, "tcp", "localhost:6379", u, "", "", PayloadOf(u), "") :
            u \in Tokens}

\* a nil net.Conn
NilConn == [kind |-> "nil", c |-> 0, key |-> ""]
\* the raw net.Conn c
RawConn(c) == [kind |-> "raw", c |-> c, key |-> ""]
\* connEnvelop{Conn: c, pm: cp, key: key}
connEnvelop(c, key) == [kind |-> "env", c |-> c, key |-> key]

\* make(map[string]connEnvelop)
EmptyPool == [k \in {} |-> NilConn]

IdleHandler == [pc |-> "idle", id |-> 0, addr |-> "", conn |-> NilConn, n |-> 0]

\* the result of the adapter's last Read or Write
NoResult ==
    [op |-> "", req |-> 0, buf |-> 0, n |-> 0, err |-> "", data |-> "",
     afterClose |-> FALSE]

\* the fields NewNatsNetConn leaves zero, and the caller between calls
IdleAdapter ==
    [uuid |-> "", readDeadLine |-> "zero", writeDeadLine |-> "zero", pc |-> "idle",
     op |-> "", req |-> 0, buf |-> 0, rd |-> FALSE, closed |-> FALSE,
     closeErr |-> "", calls |-> 0, res |-> NoResult]

\* NewNatsNetConn: &NatsNetConn{nc: nc, subject: subject, addr: addr, uuid: uuid}
NewNatsNetConn(a) == [IdleAdapter EXCEPT !.uuid = TokenOf(a)]

\* the NatsConnProxy after NewNatsConnProxy and a successful Start. owns: connPool
\* was nil, the proxy made its pool and stopHandler closes it. subs: the live
\* subscriptions. pc: where Start or its goroutine is; the goroutine unsubscribes
\* the subject pc names, the first one once ctx is done. called, start, seen, cur, tried, err:
\* the run of connPool.Close: the entries in the mapping when its range began, the
\* keys the range produced, the entry being closed, the streams whose Close it
\* invoked and the error it returned
Started(owns) ==
    [owns |-> owns, cancelled |-> FALSE, subs |-> [op \in Ops |-> TRUE],
     pc |-> readSuffix, called |-> FALSE, start |-> {}, seen |-> {},
     cur |-> NilConn, tried |-> {}, err |-> ""]

InitWith(owns) ==
    /\ reqs = [op \in Ops |-> <<>>]
    /\ replies = [op \in Ops |-> <<>>]
    /\ outcome = [op \in Ops |-> <<>>]
    /\ taken = [op \in Ops |-> 0]
    /\ h = [op \in Ops |-> IdleHandler]
    /\ mu = ""
    /\ pool = EmptyPool
    /\ conns = <<>>
    /\ dials = <<>>
    /\ crashed = FALSE
    /\ ad = [a \in Adapters |-> NewNatsNetConn(a)]
    /\ stop = Started(owns)

\* NewNatsConnProxy(nc, subject, nil): the proxy owns its pool
Init == InitWith(TRUE)

\* NewNatsConnProxy with or without an injected pool
LifecycleInit == \E owns \in BOOLEAN : InitWith(owns)

(***************************************************************************)
(* The bus.                                                                *)
(***************************************************************************)
RawOn(op) == Cardinality({i \in 1 .. Len(reqs[op]) : reqs[op][i].from = ""})
NRaw == RawOn(readSuffix) + RawOn(writeSuffix) + RawOn(closeSuffix)

\* nc.PublishMsg / the publishing half of nc.RequestMsg: the message reaches the
\* subscription of its subject
Send(m) ==
    /\ reqs' = [reqs EXCEPT ![m.op] = Append(@, m)]
    /\ replies' = [replies EXCEPT ![m.op] = Append(@, <<>>)]
    /\ outcome' = [outcome EXCEPT ![m.op] = Append(@, "pending")]

\* the op subscription is live: it was not unsubscribed and the process runs
Subscribed(op) == stop.subs[op] /\ ~crashed

\* a bare bus client publishes a request; with no subscription on the subject the
\* bus delivers it to nobody
Publish(m) ==
    /\ NRaw < MaxRaw
    /\ Subscribed(m.op)
    /\ Send(m)
    /\ UNCHANGED <<taken, h, mu, pool, conns, dials, crashed, ad, stop>>

\* msg.Respond(data): nc.Publish(msg.Reply, data). The reply is a new message made
\* of data alone; the headers of msg, the request, are not part of it.
Respond(op, id, data) ==
    [replies EXCEPT ![op][id] = Append(@, [data |-> data, err |-> ""])]

\* msg.Header.Set(errHeaderKey, err.Error()); _ = msg.Respond(body); return
Fail(op, err, body) ==
    /\ replies' = Respond(op, h[op].id, body)
    /\ outcome' = [outcome EXCEPT ![op][h[op].id] = err]
    /\ h' = [h EXCEPT ![op] = IdleHandler]

\* error replies that are empty for every operation
ErrBodyEmpty(op) == ""

\* the body an error reply of the op handler carries
ErrBody(op) == IF op = writeSuffix THEN zeroLenStr ELSE ""


(***************************************************************************)
(* NetConnPullManager.                                                     *)
(***************************************************************************)
\* the key of the revision without tokens: the address alone
generateKeyAddr(addr, uuid) == addr

\* fmt.Sprintf("%s-%s", addr.String(), uuid)
generateKey(addr, uuid) == addr \o "-" \o uuid

\* a lookup that never finds the entry
PoolHasNever(p, key) == FALSE

\* cEnv, ok := cp.pool[key]
PoolHas(p, key) == key \in DOMAIN p

\* an insertion that is forgotten
PoolInsertNothing(p, key, c) == p

\* an insertion that replaces the whole mapping
PoolInsertOnly(p, key, c) == [k \in {key} |-> connEnvelop(c, key)]

\* cp.pool[key] = connEnvelop{Conn: conn, pm: cp, key: key}
PoolInsert(p, key, c) ==
    [k \in DOMAIN p \cup {key} |-> IF k = key THEN connEnvelop(c, key) ELSE p[k]]

\* a delete that leaves the entry
PoolDeleteNothing(p, key) == p

\* delete(cp.pool, key)
PoolDelete(p, key) == [k \in DOMAIN p \ {key} |-> p[k]]

\* what Get returns when it found the entry: return cEnv, nil
GetHitReturn(p, key) == p[key]

\* what Get returns after it dialed and inserted: return conn, nil
GetMissReturn(c, key) == RawConn(c)

\* a failed dial that still inserts an entry, around the nil stream
DialFailPoolInsert(p, key) ==
    [k \in DOMAIN p \cup {key} |-> IF k = key THEN connEnvelop(0, key) ELSE p[k]]

\* the mapping Get leaves when the dial failed: return nil, fmt.Errorf("dial: %w", err)
DialFailPool(p, key) == p

\* the error a refused dial returns
DialError == "connection refused"

\* fmt.Errorf("dial: %w", err).Error()
GetError(e) == "dial: " \o e

\* the key of the Get the op handler is in
KeyOf(op) == generateKey(h[op].addr, reqs[op][h[op].id].uuid)

\* the handlers that called Get for key and wait for the mutex
Waiting(key) == {o \in Ops : h[o].pc = "lock" /\ KeyOf(o) = key}

\* a freshly dialed real stream. rlog and out record, in order, the reads and the
\* writes done on it (the request served and the bytes moved); via is the kind of
\* net.Conn value through which it was closed
NewStream(key, network, addr) ==
    [key |-> key, network |-> network, addr |-> addr, state |-> "open",
     rdl |-> "zero", wdl |-> "zero", rpos |-> 0, rlog |-> <<>>, out |-> <<>>,
     eof |-> FALSE, via |-> ""]

\* the pc at which the op handler continues once getNetConn returned conn
AfterGet(op, conn) ==
    IF op = closeSuffix
    THEN (IF conn.kind = "env" THEN "dellock" ELSE "rawclose")
    ELSE "prep"

\* a subscription that hands its handler the newest message first
NextMsgNewest(op) == Len(reqs[op])

\* the message the op subscription hands its handler next: the messages of one
\* subscription are delivered one at a time, in the order of their arrival
NextMsg(op) == taken[op] + 1

\* the subscription goroutine takes the next message and runs the handler up to
\* getNetConn: net.ResolveTCPAddr, then cp.Get reaches cp.mu.Lock()
Deliver(op) ==
    /\ ~crashed
    /\ h[op].pc = "idle"
    /\ Subscribed(op)
    /\ taken[op] < Len(reqs[op])
    /\ LET id == NextMsg(op)
           m == reqs[op][id]
           r == ResolveTCPAddr(m.network, m.addr)
       IN  /\ taken' = [taken EXCEPT ![op] = id]
           /\ IF r.ok
              THEN /\ h' = [h EXCEPT ![op] = [IdleHandler EXCEPT
                                !.pc = "lock", !.id = id, !.addr = r.str]]
                   /\ UNCHANGED <<replies, outcome>>
              ELSE /\ replies' = Respond(op, id, ErrBody(op))
                   /\ outcome' = [outcome EXCEPT ![op][id] = "address " \o m.addr]
                   /\ h' = [h EXCEPT ![op] = IdleHandler]
    /\ UNCHANGED <<reqs, mu, pool, conns, dials, crashed, ad, stop>>

\* cp.mu.Lock() in Get
GetLock(op) ==
    /\ ~crashed
    /\ h[op].pc = "lock"
    /\ mu = ""
    /\ mu' = op
    /\ h' = [h EXCEPT ![op].pc = "get"]
    /\ UNCHANGED <<reqs, replies, outcome, taken, pool, conns, dials, crashed, ad, stop>>

\* the body of Get under the mutex, the deferred Unlock, and the handler's check of
\* the error getNetConn returned
GetBody(op) ==
    /\ ~crashed
    /\ h[op].pc = "get"
    /\ mu = op
    /\ mu' = ""
    /\ LET key == KeyOf(op)
       IN  IF PoolHas(pool, key)
           THEN /\ h' = [h EXCEPT ![op].conn = GetHitReturn(pool, key),
                                  ![op].pc = AfterGet(op, GetHitReturn(pool, key))]
                /\ UNCHANGED <<replies, outcome, pool, conns, dials>>
           ELSE \E ok \in BOOLEAN :
                  /\ dials' = Append(dials, [key |-> key, network |-> TCPNetwork,
                                             addr |-> h[op].addr,
                                             conn |-> IF ok THEN Len(conns) + 1 ELSE 0,
                                             by |-> op, pending |-> Waiting(key)])
                  /\ IF ok
                     THEN /\ conns' = Append(conns, NewStream(key, TCPNetwork, h[op].addr))
                          /\ pool' = PoolInsert(pool, key, Len(conns) + 1)
                          /\ h' = [h EXCEPT
                                ![op].conn = GetMissReturn(Len(conns) + 1, key),
                                ![op].pc = AfterGet(op, GetMissReturn(Len(conns) + 1, key))]
                          /\ UNCHANGED <<replies, outcome>>
                     ELSE /\ pool' = DialFailPool(pool, key)
                          /\ Fail(op, GetError(DialError), ErrBody(op))
                          /\ UNCHANGED conns
    /\ UNCHANGED <<reqs, taken, crashed, ad, stop>>


(***************************************************************************)
(* NatsConnProxy handlers after getNetConn.                                *)
(***************************************************************************)
Min(a, b) == IF a < b THEN a ELSE b

\* conn.SetReadDeadline(t) / conn.SetWriteDeadline(t) on the real stream c; a closed
\* stream refuses it and the handler drops that error
SetStreamDeadline(cs, c, field, t) ==
    IF cs[c].state = "closed" THEN cs
    ELSE IF field = "rdl" THEN [cs EXCEPT ![c].rdl = t]
    ELSE [cs EXCEPT ![c].wdl = t]

\* if dl, err := time.Parse(time.RFC3339Nano, hdr); err == nil && !dl.IsZero() { set }
ApplyDeadline(cs, c, field, hdr) ==
    IF TimeParse(hdr).ok /\ ~IsZero(TimeParse(hdr).t)
    THEN SetStreamDeadline(cs, c, field, TimeParse(hdr).t)
    ELSE cs

\* readHandler: strconv.Atoi(readSize), make([]byte, bufSize), the read deadline
ReadPrep ==
    /\ ~crashed
    /\ h[readSuffix].pc = "prep"
    /\ LET id == h[readSuffix].id
           m == reqs[readSuffix][id]
           a == Atoi(m.size)
       IN  IF ~a.ok
           THEN /\ Fail(readSuffix, "strconv.Atoi: parsing " \o m.size, "")
                /\ UNCHANGED <<conns, crashed>>
           ELSE IF a.n < 0
           THEN \* make([]byte, bufSize) panics: len out of range; nothing recovers
                /\ crashed' = TRUE
                /\ outcome' = [outcome EXCEPT ![readSuffix][id] = "panic"]
                /\ h' = [h EXCEPT ![readSuffix].pc = "panicked"]
                /\ UNCHANGED <<replies, conns>>
           ELSE /\ conns' = ApplyDeadline(conns, h[readSuffix].conn.c, "rdl", m.dl)
                /\ h' = [h EXCEPT ![readSuffix].pc = "io", ![readSuffix].n = a.n]
                /\ UNCHANGED <<replies, outcome, crashed>>
    /\ UNCHANGED <<reqs, taken, mu, pool, dials, ad, stop>>

\* a read that returns the first k bytes every time
ReadChunkFromStart(s, k) == Str(SubSeq(Feed, 1, k))

\* buf[:n] after conn.Read(buf) returned n = k on the stream s: the next k bytes
\* the target sent
ReadChunk(s, k) == Str(SubSeq(Feed, s.rpos + 1, s.rpos + k))

\* readHandler: n, err := conn.Read(buf) and the reply
ReadIO ==
    /\ ~crashed
    /\ h[readSuffix].pc = "io"
    /\ LET id == h[readSuffix].id
           c == h[readSuffix].conn.c
           s == conns[c]
           n == h[readSuffix].n
       IN  IF s.state = "closed"
           THEN /\ Fail(readSuffix, "use of closed network connection", "")
                /\ UNCHANGED conns
           ELSE IF n = 0
           THEN /\ replies' = Respond(readSuffix, id, "")
                /\ outcome' = [outcome EXCEPT ![readSuffix][id] = "ok"]
                /\ h' = [h EXCEPT ![readSuffix] = IdleHandler]
                /\ UNCHANGED conns
           ELSE IF s.rdl = "past"
           THEN /\ Fail(readSuffix, "i/o timeout", "")
                /\ UNCHANGED conns
           ELSE IF s.eof
           THEN /\ Fail(readSuffix, "EOF", "")
                /\ UNCHANGED conns
           ELSE \/ \E k \in 1 .. Min(n, Len(Feed) - s.rpos) :
                     /\ replies' = Respond(readSuffix, id, ReadChunk(s, k))
                     /\ outcome' = [outcome EXCEPT ![readSuffix][id] = "ok"]
                     /\ conns' = [conns EXCEPT ![c].rpos = @ + k,
                                               ![c].rlog = Append(@, [id |-> id, k |-> k])]
                     /\ h' = [h EXCEPT ![readSuffix] = IdleHandler]
                \/ \* the target closed its end
                   /\ Fail(readSuffix, "EOF", "")
                   /\ conns' = [conns EXCEPT ![c].eof = TRUE]
                \/ \* the deadline set on the stream passed while Read waited
                   /\ s.rdl = "future"
                   /\ Fail(readSuffix, "i/o timeout", "")
                   /\ UNCHANGED conns
    /\ UNCHANGED <<reqs, taken, mu, pool, dials, crashed, ad, stop>>

\* writeHandler: the write deadline
WritePrep ==
    /\ ~crashed
    /\ h[writeSuffix].pc = "prep"
    /\ conns' = ApplyDeadline(conns, h[writeSuffix].conn.c, "wdl",
                              reqs[writeSuffix][h[writeSuffix].id].dl)
    /\ h' = [h EXCEPT ![writeSuffix].pc = "io"]
    /\ UNCHANGED <<reqs, replies, outcome, taken, mu, pool, dials, crashed, ad, stop>>

\* writeHandler: n, err := conn.Write(msg.Data) and the reply
WriteIO ==
    /\ ~crashed
    /\ h[writeSuffix].pc = "io"
    /\ LET id == h[writeSuffix].id
           c == h[writeSuffix].conn.c
           s == conns[c]
           data == reqs[writeSuffix][id].data
       IN  IF s.state = "closed"
           THEN /\ Fail(writeSuffix, "use of closed network connection", zeroLenStr)
                /\ UNCHANGED conns
           ELSE IF s.wdl = "past"
           THEN /\ Fail(writeSuffix, "i/o timeout", zeroLenStr)
                /\ UNCHANGED conns
           ELSE IF s.eof
           THEN /\ Fail(writeSuffix, "broken pipe", zeroLenStr)
                /\ UNCHANGED conns
           ELSE \/ /\ replies' = Respond(writeSuffix, id, Itoa(Len(data)))
                   /\ outcome' = [outcome EXCEPT ![writeSuffix][id] = "ok"]
                   /\ conns' = [conns EXCEPT ![c].out = Append(@, [id |-> id, data |-> data])]
                   /\ h' = [h EXCEPT ![writeSuffix] = IdleHandler]
                \/ \* the target closed its end
                   /\ Fail(writeSuffix, "broken pipe", zeroLenStr)
                   /\ conns' = [conns EXCEPT ![c].eof = TRUE]
    /\ UNCHANGED <<reqs, taken, mu, pool, dials, crashed, ad, stop>>

\* connEnvelop.Close: ce.pm.delete(ce.key) reaches cp.mu.Lock()
DeleteLock ==
    /\ ~crashed
    /\ h[closeSuffix].pc = "dellock"
    /\ mu = ""
    /\ mu' = closeSuffix
    /\ h' = [h EXCEPT ![closeSuffix].pc = "del"]
    /\ UNCHANGED <<reqs, replies, outcome, taken, pool, conns, dials, crashed, ad, stop>>

\* delete: delete(cp.pool, key) and the deferred Unlock
DeleteBody ==
    /\ ~crashed
    /\ h[closeSuffix].pc = "del"
    /\ mu = closeSuffix
    /\ mu' = ""
    /\ pool' = PoolDelete(pool, h[closeSuffix].conn.key)
    /\ h' = [h EXCEPT ![closeSuffix].pc = "rawclose"]
    /\ UNCHANGED <<reqs, replies, outcome, taken, conns, dials, crashed, ad, stop>>

\* closeHandler: the Close of the real stream (conn.Close() of a raw stream,
\* ce.Conn.Close() of an envelope) and the reply
RawClose ==
    /\ ~crashed
    /\ h[closeSuffix].pc = "rawclose"
    /\ LET id == h[closeSuffix].id
           c == h[closeSuffix].conn.c
       IN  IF conns[c].state = "closed"
           THEN /\ Fail(closeSuffix, "use of closed network connection", "")
                /\ UNCHANGED conns
           ELSE /\ conns' = [conns EXCEPT ![c].state = "closed",
                                          ![c].via = h[closeSuffix].conn.kind]
                /\ replies' = Respond(closeSuffix, id, "")
                /\ outcome' = [outcome EXCEPT ![closeSuffix][id] = "ok"]
                /\ h' = [h EXCEPT ![closeSuffix] = IdleHandler]
    /\ UNCHANGED <<reqs, taken, mu, pool, dials, crashed, ad, stop>>


(***************************************************************************)
(* Start's goroutine: <-ctx.Done(), the three Unsubscribe calls, stopHandler *)
(* and in it NetConnPullManager.Close.                                     *)
(***************************************************************************)
\* a goroutine that forgets the close subscription
AfterUnsubscribeRead(op) == IF op = readSuffix THEN writeSuffix ELSE "stopHandler"

\* the subject Start's goroutine unsubscribes after op, or stopHandler
AfterUnsubscribe(op) ==
    CASE op = readSuffix -> writeSuffix
      [] op = writeSuffix -> closeSuffix
      [] op = closeSuffix -> "stopHandler"

\* Start is at its nc.Subscribe of the op subject
StartAt(op) == "Subscribe" \o op

\* the NatsConnProxy after NewNatsConnProxy, when Start is called: no
\* subscription yet, no goroutine
Constructed(owns) ==
    [Started(owns) EXCEPT !.subs = [op \in Ops |-> FALSE],
                          !.pc = StartAt(readSuffix)]

\* where Start goes after the Subscribe of op succeeded: the next Subscribe, or
\* go func() { <-ctx.Done() ... }() and return nil
AfterSubscribe(op) ==
    CASE op = readSuffix -> StartAt(writeSuffix)
      [] op = writeSuffix -> StartAt(closeSuffix)
      [] op = closeSuffix -> readSuffix

\* sub, err := ncp.nc.Subscribe(ncp.subject+op, handler); if err != nil { return
\* err }: the subscription is live from here on, or Start returns the error as
\* it is, the subscriptions it made before left as they are
Subscribe(op) ==
    /\ ~crashed
    /\ stop.pc = StartAt(op)
    /\ \E ok \in BOOLEAN :
          stop' = IF ok
                  THEN [stop EXCEPT !.subs[op] = TRUE, !.pc = AfterSubscribe(op)]
                  ELSE [stop EXCEPT !.pc = "failed"]
    /\ UNCHANGED <<reqs, replies, outcome, taken, h, mu, pool, conns, dials, crashed, ad>>

\* the application cancels the context given to Start
Cancel ==
    /\ ~stop.cancelled
    /\ stop' = [stop EXCEPT !.cancelled = TRUE]
    /\ UNCHANGED <<reqs, replies, outcome, taken, h, mu, pool, conns, dials, crashed, ad>>

\* _ = sub.Unsubscribe(): no further message is handed to the handler; a callback
\* that is running goes on
Unsubscribe(op) ==
    /\ ~crashed
    /\ stop.cancelled
    /\ stop.pc = op
    /\ stop' = [stop EXCEPT !.subs[op] = FALSE, !.pc = AfterUnsubscribe(op)]
    /\ UNCHANGED <<reqs, replies, outcome, taken, h, mu, pool, conns, dials, crashed, ad>>

\* if ncp.stopHandler != nil { ncp.stopHandler() }: the call of connPool.Close
\* reaches its range statement
StopHandler ==
    /\ ~crashed
    /\ stop.pc = "stopHandler"
    /\ stop' = IF stop.owns
               THEN [stop EXCEPT !.pc = "range", !.called = TRUE,
                                 !.start = {pool[k].c : k \in DOMAIN pool}]
               ELSE [stop EXCEPT !.pc = "done"]
    /\ UNCHANGED <<reqs, replies, outcome, taken, h, mu, pool, conns, dials, crashed, ad>>

\* the streams that were pooled when the range began, are pooled still and were
\* not produced yet; the range produces each of them before it ends
Unvisited ==
    {k \in DOMAIN pool : pool[k].c \in stop.start /\ k \notin stop.seen}

\* for _, conn := range cp.pool: one step of the iteration, made without cp.mu.
\* It produces an entry not produced before (one inserted since the range began
\* may be produced or skipped) or ends the loop: return nil. When a handler is
\* inside Get or delete at that moment the accesses race, and the runtime may
\* stop the process: fatal error: concurrent map iteration and map write.
CloseRange ==
    /\ ~crashed
    /\ stop.pc = "range"
    /\ \/ /\ mu # ""
          /\ crashed' = TRUE
          /\ UNCHANGED stop
       \/ /\ \E k \in DOMAIN pool \ stop.seen :
                stop' = [stop EXCEPT !.pc = "dellock", !.cur = pool[k],
                                     !.seen = @ \cup {k}]
          /\ UNCHANGED crashed
       \/ /\ Unvisited = {}
          /\ stop' = [stop EXCEPT !.pc = "done"]
          /\ UNCHANGED crashed
    /\ UNCHANGED <<reqs, replies, outcome, taken, h, mu, pool, conns, dials, ad>>

\* conn.Close() in the range is connEnvelop.Close: ce.pm.delete(ce.key) reaches
\* cp.mu.Lock()
CloseDeleteLock ==
    /\ ~crashed
    /\ stop.pc = "dellock"
    /\ mu = ""
    /\ mu' = "stop"
    /\ stop' = [stop EXCEPT !.pc = "del"]
    /\ UNCHANGED <<reqs, replies, outcome, taken, h, pool, conns, dials, crashed, ad>>

\* delete: delete(cp.pool, key) and the deferred Unlock
CloseDeleteBody ==
    /\ ~crashed
    /\ stop.pc = "del"
    /\ mu = "stop"
    /\ mu' = ""
    /\ pool' = PoolDelete(pool, stop.cur.key)
    /\ stop' = [stop EXCEPT !.pc = "rawclose"]
    /\ UNCHANGED <<reqs, replies, outcome, taken, h, conns, dials, crashed, ad>>

\* fmt.Errorf("close connection: %w", err).Error()
CloseError(e) == "close connection: " \o e

\* return ce.Conn.Close() and, in NetConnPullManager.Close, if err != nil { return
\* fmt.Errorf(...) }: the first failure ends the range
CloseRawClose ==
    /\ ~crashed
    /\ stop.pc = "rawclose"
    /\ LET c == stop.cur.c
       IN  IF conns[c].state = "closed"
           THEN /\ stop' = [stop EXCEPT !.pc = "done", !.tried = @ \cup {c},
                                        !.cur = NilConn,
                                        !.err = CloseError("use of closed network connection")]
                /\ UNCHANGED conns
           ELSE /\ conns' = [conns EXCEPT ![c].state = "closed", ![c].via = "env"]
                /\ stop' = [stop EXCEPT !.pc = "range", !.tried = @ \cup {c},
                                        !.cur = NilConn]
    /\ UNCHANGED <<reqs, replies, outcome, taken, h, mu, pool, dials, crashed, ad>>


(***************************************************************************)
(* NatsNetConn, the client-side adapter.                                   *)
(***************************************************************************)
\* Read up to c.nc.RequestMsg(newMsg, rd): the request is published
AdapterRead(a, n) ==
    /\ ad[a].pc = "idle"
    /\ ad[a].calls < MaxCalls
    /\ Send(Msg(readSuffix, TCPNetwork, AddrOf(a), ad[a].uuid, Itoa(n),
                Format(ad[a].readDeadLine), "", a))
    /\ ad' = [ad EXCEPT ![a].pc = "wait", ![a].op = readSuffix,
                        ![a].req = Len(reqs[readSuffix]) + 1, ![a].buf = n,
                        ![a].rd = UntilPositive(ad[a].readDeadLine),
                        ![a].calls = @ + 1]
    /\ UNCHANGED <<taken, h, mu, pool, conns, dials, crashed, stop>>

\* Write up to c.nc.RequestMsg(newMsg, rd): the request is published
AdapterWrite(a, b) ==
    /\ ad[a].pc = "idle"
    /\ ad[a].calls < MaxCalls
    /\ Send(Msg(writeSuffix, TCPNetwork, AddrOf(a), ad[a].uuid, "",
                Format(ad[a].writeDeadLine), b, a))
    /\ ad' = [ad EXCEPT ![a].pc = "wait", ![a].op = writeSuffix,
                        ![a].req = Len(reqs[writeSuffix]) + 1, ![a].buf = Len(b),
                        ![a].rd = UntilPositive(ad[a].writeDeadLine),
                        ![a].calls = @ + 1]
    /\ UNCHANGED <<taken, h, mu, pool, conns, dials, crashed, stop>>

\* a Read that copies what fits of a body that is too long
ReadResultTruncate(msg, buflen) ==
    IF msg.err # "" THEN [n |-> 0, err |-> "nats error: " \o msg.err, data |-> ""]
    ELSE [n |-> Min(Len(msg.data), buflen), err |-> "", data |-> msg.data]

\* what Read returns for the reply msg
ReadResult(msg, buflen) ==
    IF msg.err # "" THEN [n |-> 0, err |-> "nats error: " \o msg.err, data |-> ""]
    ELSE IF Len(msg.data) > buflen THEN [n |-> 0, err |-> "message too long", data |-> ""]
    ELSE [n |-> Len(msg.data), err |-> "", data |-> msg.data]

\* a Write that does not look at the err header
WriteResultNoHeader(msg) ==
    IF ~Atoi(msg.data).ok THEN [n |-> 0, err |-> "parse write length", data |-> ""]
    ELSE [n |-> Atoi(msg.data).n, err |-> "", data |-> ""]

\* what Write returns for the reply msg
WriteResult(msg) ==
    IF msg.err # "" THEN [n |-> 0, err |-> "nats error: " \o msg.err, data |-> ""]
    ELSE IF ~Atoi(msg.data).ok THEN [n |-> 0, err |-> "parse write length", data |-> ""]
    ELSE [n |-> Atoi(msg.data).n, err |-> "", data |-> ""]

\* the caller gets r back from the Read or Write it is in
Return(a, r) ==
    ad' = [ad EXCEPT ![a].pc = "idle",
                     ![a].res = [op |-> ad[a].op, req |-> ad[a].req,
                                 buf |-> ad[a].buf, n |-> r.n,
                                 err |-> r.err, data |-> r.data,
                                 afterClose |-> ad[a].closed]]

\* RequestMsg returns the reply: it arrived before the timeout rd ran out
RequestReply(a) ==
    /\ ad[a].pc = "wait"
    /\ ad[a].rd
    /\ replies[ad[a].op][ad[a].req] # <<>>
    /\ Return(a, IF ad[a].op = readSuffix
                 THEN ReadResult(replies[ad[a].op][ad[a].req][1], ad[a].buf)
                 ELSE WriteResult(replies[ad[a].op][ad[a].req][1]))
    /\ UNCHANGED <<reqs, replies, outcome, taken, h, mu, pool, conns, dials, crashed, stop>>

\* RequestMsg returns nats.ErrTimeout: at once when rd <= 0, else when rd ran out
RequestTimeout(a) ==
    /\ ad[a].pc = "wait"
    /\ Return(a, [n |-> 0, err |-> "nats request: nats: timeout", data |-> ""])
    /\ UNCHANGED <<reqs, replies, outcome, taken, h, mu, pool, conns, dials, crashed, stop>>

\* a Close that clears the deadlines
AfterCloseReset(x) ==
    [x EXCEPT !.closed = TRUE, !.closeErr = "",
              !.readDeadLine = "zero", !.writeDeadLine = "zero"]

\* the NatsNetConn x after Close: no field is written and the error is nil;
\* closed records for the model that Close was called
AfterClose(x) == [x EXCEPT !.closed = TRUE, !.closeErr = ""]

\* func (c *NatsNetConn) Close() error { return nil }
AdapterClose(a) ==
    /\ ad[a].pc = "idle"
    /\ ad' = [ad EXCEPT ![a] = AfterClose(@)]
    /\ UNCHANGED <<reqs, replies, outcome, taken, h, mu, pool, conns, dials, crashed, stop>>

\* a SetReadDeadline that stores the instant in both fields
SetReadDeadlineBoth(a, t) ==
    /\ ad[a].pc = "idle"
    /\ ad' = [ad EXCEPT ![a].readDeadLine = t, ![a].writeDeadLine = t]
    /\ UNCHANGED <<reqs, replies, outcome, taken, h, mu, pool, conns, dials, crashed, stop>>

SetReadDeadline(a, t) ==
    /\ ad[a].pc = "idle"
    /\ ad' = [ad EXCEPT ![a].readDeadLine = t]
    /\ UNCHANGED <<reqs, replies, outcome, taken, h, mu, pool, conns, dials, crashed, stop>>

SetWriteDeadline(a, t) ==
    /\ ad[a].pc = "idle"
    /\ ad' = [ad EXCEPT ![a].writeDeadLine = t]
    /\ UNCHANGED <<reqs, replies, outcome, taken, h, mu, pool, conns, dials, crashed, stop>>

SetDeadline(a, t) ==
    /\ ad[a].pc = "idle"
    /\ ad' = [ad EXCEPT ![a].readDeadLine = t, ![a].writeDeadLine = t]
    /\ UNCHANGED <<reqs, replies, outcome, taken, h, mu, pool, conns, dials, crashed, stop>>

(***************************************************************************)
(* The system.                                                             *)
(***************************************************************************)
\* a bus client that is not an adapter
PublishNext == \E m \in RawMsgs : Publish(m)

\* the read and write subscriptions' goroutines, and Get as any handler runs it
ServeNext ==
    \/ \E op \in Ops : Deliver(op)
    \/ \E op \in Ops : GetLock(op)
    \/ \E op \in Ops : GetBody(op)
    \/ ReadPrep
    \/ ReadIO
    \/ WritePrep
    \/ WriteIO

\* the close subscription's goroutine after Get
CloseNext ==
    \/ DeleteLock
    \/ DeleteBody
    \/ RawClose

\* the proxy: the three subscription goroutines
ProxyNext == ServeNext \/ CloseNext

\* the callers of the adapters
AdapterNext ==
    \/ \E a \in Adapters, n \in BufLens : AdapterRead(a, n)
    \/ \E a \in Adapters, b \in Payloads : AdapterWrite(a, b)
    \/ \E a \in Adapters : RequestReply(a)
    \/ \E a \in Adapters : RequestTimeout(a)
    \/ \E a \in Adapters : AdapterClose(a)
    \/ \E a \in Adapters, t \in Instants : SetReadDeadline(a, t)
    \/ \E a \in Adapters, t \in Instants : SetWriteDeadline(a, t)
    \/ \E a \in Adapters, t \in Instants : SetDeadline(a, t)

\* the goroutine Start leaves behind
StopNext ==
    \/ \E op \in Ops : Unsubscribe(op)
    \/ StopHandler
    \/ CloseRange
    \/ CloseDeleteLock
    \/ CloseDeleteBody
    \/ CloseRawClose

Next == PublishNext \/ ProxyNext

\* two clients of one endpoint
PublishToken == \E m \in TokenMsgs : Publish(m)

TokenNext == PublishToken \/ ProxyNext

\* the requests of the first token, and the reads of the second
GoodMsgs == {m \in TokenMsgs : m.op # readSuffix => m.uuid = "0A-01"}

\* a bus client of a proxy that is followed to its stop
PublishGood == NRaw < MaxStopRaw /\ \E m \in GoodMsgs : Publish(m)

LifecycleNext == Cancel \/ StopNext \/ PublishGood \/ ProxyNext

\* the proxy from the call of Start on
StartInit ==
    /\ reqs = [op \in Ops |-> <<>>]
    /\ replies = [op \in Ops |-> <<>>]
    /\ outcome = [op \in Ops |-> <<>>]
    /\ taken = [op \in Ops |-> 0]
    /\ h = [op \in Ops |-> IdleHandler]
    /\ mu = ""
    /\ pool = EmptyPool
    /\ conns = <<>>
    /\ dials = <<>>
    /\ crashed = FALSE
    /\ ad = [a \in Adapters |-> NewNatsNetConn(a)]
    /\ \E owns \in BOOLEAN : stop = Constructed(owns)

StartNext == (\E op \in Ops : Subscribe(op)) \/ LifecycleNext

\* the proxy serving arbitrary bus clients
Spec == Init /\ [][Next]_vars

\* the proxy serving the adapter. The adapter publishes on the read and write
\* subjects only (its Close sends nothing), so the close subscription receives
\* no message and its goroutine takes no step.
AdapterSpec == Init /\ [][AdapterNext \/ ServeNext]_vars


\* replies a responder on the subject may send: bodies that are and are not
\* decimal numbers, shorter and longer than the buffers, with and without err
ReplyMsgs ==
    {[data |-> d, err |-> ""] : d \in {"", "4", "xyz"}}
    \cup {[data |-> d, err |-> "EOF"] : d \in {"", "0"}}

\* msg, err := c.nc.RequestMsg(newMsg, rd): some responder answers the request
\* of the call the adapter a is in
ForeignReply(a) ==
    /\ ad[a].pc = "wait"
    /\ replies[ad[a].op][ad[a].req] = <<>>
    /\ \E msg \in ReplyMsgs :
          replies' = [replies EXCEPT ![ad[a].op][ad[a].req] = <<msg>>]
    /\ UNCHANGED <<reqs, outcome, taken, h, mu, pool, conns, dials, crashed, ad, stop>>

ReplyNext ==
    \/ AdapterNext /\ \A a \in Adapters : ad'[a].calls <= MaxReplyCalls
    \/ \E a \in Adapters : ForeignReply(a)

\* the adapter and an arbitrary responder
ReplySpec == Init /\ [][ReplyNext]_vars

\* the proxy serving two clients of one endpoint that differ in their token
TokenSpec == Init /\ [][TokenNext]_vars

\* the proxy from Start to the end of the goroutine that waits for ctx.Done()
LifecycleSpec == LifecycleInit /\ [][LifecycleNext]_vars

\* the proxy to the end of the goroutine of Start with the goroutines of the
\* program scheduled fairly: one that can run does run, the dial and the raw
\* closes return, and sync.Mutex hands cp.mu to a goroutine that keeps waiting
\* for it (Lock does not starve)
FairPoolSpec ==
    /\ LifecycleSpec
    /\ WF_vars(\E op \in Ops : Unsubscribe(op))
    /\ WF_vars(StopHandler)
    /\ WF_vars(CloseRange)
    /\ SF_vars(CloseDeleteLock)
    /\ WF_vars(CloseDeleteBody)
    /\ WF_vars(CloseRawClose)
    /\ \A op \in Ops : SF_vars(GetLock(op))
    /\ \A op \in Ops : WF_vars(GetBody(op))
    /\ SF_vars(DeleteLock)
    /\ WF_vars(DeleteBody)
    /\ WF_vars(RawClose)

\* the proxy from the call of Start to the end of its goroutine, each Subscribe
\* succeeding or failing
StartSpec == StartInit /\ [][StartNext]_vars

\* the same, the Go scheduler running the goroutine of Start whenever it can run,
\* and the handlers inside the pool's critical sections
FairLifecycleSpec ==
    /\ LifecycleSpec
    /\ WF_vars(StopNext)
    /\ WF_vars(\E op \in Ops : GetBody(op))
    /\ WF_vars(DeleteBody)


(***************************************************************************)
(* Claims.                                                                 *)
(***************************************************************************)
\* the ids of the requests published on the op subject
Handled(op) == 1 .. Len(reqs[op])

\* C1: when the Close of a stream that Get handed out returns (whether that Get
\* dialed the stream or found it pooled), the pool holds no entry wrapping that
\* stream any more, so that the next Get of the key dials.
CloseReleasesPoolSlot ==
    [][RawClose =>
         ~ \E k \in DOMAIN pool' : pool'[k].c = h[closeSuffix].conn.c]_vars

\* C2: the pool never retains an entry whose real stream has been closed.
NoClosedStreamPooled ==
    \A k \in DOMAIN pool : conns[pool[k].c].state # "closed"

\* C3: a published reply carries a non-empty err header if and only if the
\* operation it answers failed at the proxy.
ErrHeaderIffFailed ==
    \A op \in Ops : \A id \in Handled(op) :
        \A i \in 1 .. Len(replies[op][id]) :
            (replies[op][id][i].err # "") <=> (outcome[op][id] # "ok")

\* the adapter's last call returned, and the proxy failed the request of that call
ProxyFailed(a) ==
    /\ ad[a].res.op # ""
    /\ outcome[ad[a].res.op][ad[a].res.req] \notin {"pending", "ok"}

\* C4: an adapter Read or Write whose handling failed at the proxy returns
\* (0, non-nil error).
ErrorsReachCaller ==
    \A a \in Adapters :
        ProxyFailed(a) => ad[a].res.n = 0 /\ ad[a].res.err # ""

\* C5: every request a handler has finished with got exactly one reply, and no
\* request ever has two.
ExactlyOneReply ==
    \A op \in Ops : \A id \in Handled(op) :
        /\ Len(replies[op][id]) <= 1
        /\ outcome[op][id] # "pending" => Len(replies[op][id]) = 1

\* C6: a Write made on the adapter after adapter.Close() returned returns an
\* error, and the proxy's pool has no entry for the adapter's key.
CloseSemantics ==
    \A a \in Adapters :
        ad[a].res.op = writeSuffix /\ ad[a].res.afterClose =>
            /\ ad[a].res.err # ""
            /\ generateKey(AddrOf(a), TokenOf(a)) \notin DOMAIN pool


Streams == 1 .. Len(conns)

\* the real stream c was dialed and has not been closed
Live(c) == conns[c].state = "open"

\* connEnvelop.Close has removed the entry of stream c and not yet closed c
Closing(c) ==
    /\ h[closeSuffix].pc = "rawclose"
    /\ h[closeSuffix].conn.kind = "env"
    /\ h[closeSuffix].conn.c = c

ConcurrentGets(i, j) ==
    /\ i < j
    /\ dials[j].by \in dials[i].pending
    /\ \A k \in (i + 1) .. (j - 1) : dials[k].by # dials[j].by

\* a stream for the key of dial i was dialed at or after dial i and before dial j:
\* only the close of that stream can have emptied the slot for dial j
CloseIntervened(i, j) ==
    \E k \in i .. (j - 1) : dials[k].key = dials[i].key /\ dials[k].conn # 0

\* C8, as claimed: of concurrent Get calls for one absent key only one invokes the
\* dial function, unless a close intervenes.
OneDialForConcurrentGets ==
    \A i \in 1 .. Len(dials) : \A j \in 1 .. Len(dials) :
        ConcurrentGets(i, j) => CloseIntervened(i, j)

\* the handlers that hold a stream for a key nobody has closed or is closing
Holders(key) ==
    {o \in Ops : /\ h[o].conn.kind # "nil"
                 /\ conns[h[o].conn.c].key = key
                 /\ Live(h[o].conn.c)
                 /\ ~Closing(h[o].conn.c)}

\* C8, amended: of concurrent Get calls for one absent key at most one has its
\* dial succeed: a stream is dialed for a key that already has one only after a
\* close of that one, the pool holds the one stream, and all the handlers that
\* got a stream for the key hold that same stream.
OneStreamForConcurrentGets ==
    /\ \A i \in 1 .. Len(dials) : \A j \in 1 .. Len(dials) :
          i < j /\ dials[i].key = dials[j].key /\ dials[i].conn # 0 =>
              ~Live(dials[i].conn) \/ Closing(dials[i].conn)
    /\ \A i \in 1 .. Len(dials) :
          dials[i].conn # 0 /\ Live(dials[i].conn) /\ ~Closing(dials[i].conn) =>
              \A o \in Holders(dials[i].key) : h[o].conn.c = dials[i].conn

\* C8, the case: a Get that waited for the mutex while another Get dialed the key
\* returned the stream of that dial, and both handlers hold it
ConcurrentGetsShareStream ==
    \E i \in 1 .. Len(dials) : \E o \in dials[i].pending :
        /\ dials[i].conn # 0
        /\ h[o].conn.kind = "env"
        /\ h[o].conn.c = dials[i].conn
        /\ h[dials[i].by].conn = RawConn(dials[i].conn)


\* the last call of the dial function
LastDial(ds) == ds[Len(ds)]

\* C9: a Get that finds an entry for its key returns that entry's stream, calls
\* no dial and leaves the pool as it is; a Get that finds none calls the dial
\* function once, with the endpoint's network and address, and when that yields
\* a stream inserts it under exactly that key, every other key keeping its entry,
\* and returns it.
GetContract ==
    [][\A op \in Ops : GetBody(op) =>
          IF KeyOf(op) \in DOMAIN pool
          THEN /\ pool' = pool
               /\ dials' = dials
               /\ conns' = conns
               /\ h'[op].conn.c = pool[KeyOf(op)].c
          ELSE /\ Len(dials') = Len(dials) + 1
               /\ LastDial(dials').network = "tcp"
               /\ LastDial(dials').addr = h[op].addr
               /\ Len(conns') > Len(conns) =>
                     /\ Len(conns') = Len(conns) + 1
                     /\ DOMAIN pool' = DOMAIN pool \cup {KeyOf(op)}
                     /\ \A k \in DOMAIN pool : pool'[k] = pool[k]
                     /\ pool'[KeyOf(op)].c = Len(conns')
                     /\ h'[op].conn.c = Len(conns')]_vars

\* C9, the case: Get has served a miss for each of two keys and a hit
GetHitAndTwoKeys ==
    /\ Cardinality(DOMAIN pool) = 2
    /\ \E op \in Ops : /\ h[op].conn.kind = "env"
                       /\ h[op].conn.key \in DOMAIN pool
                       /\ pool[h[op].conn.key].c = h[op].conn.c

\* C10: when the dial fails, Get returns no stream and an error that wraps the
\* dial error (the handler replies with it), and the pool is what it was: no
\* entry for the key, so that a later Get of the key dials again.
DialFailureLeavesPool ==
    [][\A op \in Ops :
          GetBody(op) /\ Len(dials') > Len(dials) /\ LastDial(dials').conn = 0 =>
              /\ pool' = pool
              /\ KeyOf(op) \notin DOMAIN pool'
              /\ conns' = conns
              /\ h'[op].conn = NilConn
              /\ outcome'[op][h[op].id] = "dial: " \o DialError]_vars

\* C10, the case: a dial failed and a later Get of the same key dialed again
DialedAgainAfterFailure ==
    \E i \in 1 .. Len(dials) : \E j \in 1 .. Len(dials) :
        /\ i < j
        /\ dials[i].conn = 0
        /\ dials[j].key = dials[i].key
        /\ ~ \E k \in 1 .. (j - 1) : dials[k].key = dials[i].key /\ dials[k].conn # 0


\* C11: when the I/O of a READ or WRITE handler on the real stream returns an
\* error, the pool holds no entry for the key of that request afterwards, so
\* that the next operation for the key dials a fresh stream.
IOErrorDropsEntry ==
    [][\A op \in {readSuffix, writeSuffix} :
          ((IF op = readSuffix THEN ReadIO ELSE WriteIO)
             /\ outcome'[op][h[op].id] # "ok")
          => (KeyOf(op) \notin DOMAIN pool')]_vars

\* the stream c is the stream of some entry of the pool
Pooled(c) == \E k \in DOMAIN pool : pool[k].c = c

\* C12: when NetConnPullManager.Close has returned, the Close of every stream
\* that was pooled when it was called has been invoked by it, whatever errors the
\* other closes returned (a stream that a handler took out of the pool in the
\* meantime is left to that handler).
CloseAttemptsEveryStream ==
    stop.called /\ stop.pc = "done" =>
        \A c \in stop.start : c \in stop.tried \/ ~Pooled(c)

\* the op handler is inside Get and will insert, or inside delete
Modifying(op) ==
    \/ h[op].pc = "get" /\ KeyOf(op) \notin DOMAIN pool
    \/ h[op].pc = "del"

\* C13: the mapping is accessed under the mutex only: NetConnPullManager.Close is
\* never at a step of its iteration of the mapping while a handler is inside Get
\* or delete, modifying the mapping.
NoIterationDuringModification ==
    ~ (stop.pc = "range" /\ \E op \in Ops : Modifying(op))

\* C14: connEnvelop.Close deletes the key before it invokes the Close of the real
\* stream: when that Close is invoked, by a handler or by NetConnPullManager.Close,
\* no entry of the pool wraps the stream, and the pool never holds an entry whose
\* stream was closed through its envelope, so a Get that starts after the close
\* finds no such entry.
DeleteBeforeUnderlyingClose ==
    /\ [](\A k \in DOMAIN pool : conns[pool[k].c].via # "env")
    /\ [][((RawClose /\ h[closeSuffix].conn.kind = "env")
              => ~Pooled(h[closeSuffix].conn.c))
          /\ (CloseRawClose => ~Pooled(stop.cur.c))]_vars

\* C14, the case: a stream was closed through its envelope and a Get that came
\* after found no entry and dialed the key again
RedialedAfterEnvelopeClose ==
    \E c \in Streams :
        /\ conns[c].via = "env"
        /\ conns[c].key \in DOMAIN pool
        /\ pool[conns[c].key].c # c

\* C15: once the context is cancelled the three subscriptions are eventually
\* unsubscribed and, when the proxy owns its pool, the pool's Close is called;
\* past stopHandler the pool's Close has been called if and only if the proxy
\* owns the pool; the goroutine never touches an injected pool.
StopOnCancel ==
    /\ stop.cancelled ~>
          (/\ \A op \in Ops : ~stop.subs[op]
           /\ (stop.owns => stop.called))
    /\ []((stop.pc \notin Ops \cup {"stopHandler"}) => (stop.called <=> stop.owns))
    /\ [][(~stop.owns /\ StopNext) => UNCHANGED <<pool, conns, mu>>]_vars

\* C15, the case: the goroutine of a proxy that owns its pool has unsubscribed
\* the three subjects and closed a pooled stream
StoppedAndPoolClosed ==
    /\ stop.pc = "done"
    /\ stop.owns
    /\ \A op \in Ops : ~stop.subs[op]
    /\ stop.tried # {}
    /\ ~crashed


RECURSIVE ReadBefore(_, _)
\* the number of bytes the reads before the i-th read of a stream took from it
ReadBefore(log, i) == IF i <= 1 THEN 0 ELSE log[i - 1].k + ReadBefore(log, i - 1)

\* the reads <<c, i>> done at the proxy for the READ request id
ReadsFor(id) ==
    {ci \in Streams \X (1 .. Len(Feed)) :
        /\ ci[2] <= Len(conns[ci[1]].rlog)
        /\ conns[ci[1]].rlog[ci[2]].id = id}

\* the key the proxy derives for the adapter a
AdapterKey(a) == AddrOf(a) \o "-" \o TokenOf(a)

\* C16: a Read of the adapter that returns no error returns m with
\* 0 <= m <= len(buf), and the m bytes are the bytes that one read at the proxy,
\* made for this request on the stream of the adapter's key, took from the stream:
\* the m bytes that follow those of the stream's earlier reads.
ReadReturnsNextBytes ==
    \A a \in Adapters :
        ad[a].res.op = readSuffix /\ ad[a].res.err = "" =>
            /\ 0 <= ad[a].res.n
            /\ ad[a].res.n <= ad[a].res.buf
            /\ Len(ad[a].res.data) = ad[a].res.n
            /\ Cardinality(ReadsFor(ad[a].res.req)) <= 1
            /\ ad[a].res.n = 0 => ReadsFor(ad[a].res.req) = {}
            /\ ad[a].res.n > 0 =>
                  \E ci \in ReadsFor(ad[a].res.req) :
                      /\ conns[ci[1]].key = AdapterKey(a)
                      /\ conns[ci[1]].rlog[ci[2]].k = ad[a].res.n
                      /\ ad[a].res.data =
                            Str(SubSeq(Feed, ReadBefore(conns[ci[1]].rlog, ci[2]) + 1,
                                       ReadBefore(conns[ci[1]].rlog, ci[2]) + ad[a].res.n))

\* C16, the case: a Read returned the bytes of the second read of its stream
SecondReadReturned ==
    \E a \in Adapters : \E ci \in ReadsFor(ad[a].res.req) :
        /\ ad[a].res.op = readSuffix
        /\ ad[a].res.err = ""
        /\ ad[a].res.n > 0
        /\ ci[2] = 2

\* the writes <<c, i>> done at the proxy for the WRITE request id
WritesFor(id) ==
    {ci \in Streams \X (1 .. (MaxCalls + MaxRaw)) :
        /\ ci[2] <= Len(conns[ci[1]].out)
        /\ conns[ci[1]].out[ci[2]].id = id}

\* C17: a Write(P) of the adapter that returns no error had exactly the bytes of
\* P written, by one write, to the stream of the adapter's key, and returns the
\* count of that write, len(P).
WriteReachesStream ==
    \A a \in Adapters :
        ad[a].res.op = writeSuffix /\ ad[a].res.err = "" =>
            /\ Cardinality(WritesFor(ad[a].res.req)) = 1
            /\ \A ci \in WritesFor(ad[a].res.req) :
                  /\ conns[ci[1]].key = AdapterKey(a)
                  /\ conns[ci[1]].out[ci[2]].data = reqs[writeSuffix][ad[a].res.req].data
            /\ ad[a].res.n = ad[a].res.buf

\* the requests that were served, by a read or a write, on the stream c
ServedOn(c) ==
    {reqs[readSuffix][conns[c].rlog[i].id] : i \in 1 .. Len(conns[c].rlog)}
    \cup {reqs[writeSuffix][conns[c].out[i].id] : i \in 1 .. Len(conns[c].out)}

\* C18: requests for one endpoint that carry different tokens are served on
\* different streams, held by different pool entries: no stream has served
\* requests of two tokens, what was written to a stream is the payload of a
\* request it served, and no two keys of the pool wrap one stream.
TokensKeepStreamsApart ==
    /\ \A c \in Streams : \A m1 \in ServedOn(c) : \A m2 \in ServedOn(c) :
          m1.uuid = m2.uuid
    /\ \A c \in Streams : \A i \in 1 .. Len(conns[c].out) :
          conns[c].out[i].data = reqs[writeSuffix][conns[c].out[i].id].data
    /\ \A k1 \in DOMAIN pool : \A k2 \in DOMAIN pool :
          k1 # k2 => pool[k1].c # pool[k2].c

\* C18, the case: the same endpoint was served for two tokens, a write of the one
\* and a read of the other, on two pooled streams
TwoTokensTwoStreams ==
    \E c1 \in Streams : \E c2 \in Streams :
        /\ c1 # c2
        /\ conns[c1].addr = conns[c2].addr
        /\ Pooled(c1) /\ Pooled(c2)
        /\ conns[c1].out # <<>>
        /\ conns[c2].rlog # <<>>
        /\ \E m1 \in ServedOn(c1) : \E m2 \in ServedOn(c2) : m1.uuid # m2.uuid

\* the streams the proxy has used, or is about to use, for requests of adapter a
StreamsOf(a) ==
    {c \in Streams : \E m \in ServedOn(c) : m.from = a}
    \cup {h[op].conn.c : op \in {o \in {readSuffix, writeSuffix} :
                                    /\ h[o].conn.kind # "nil"
                                    /\ reqs[o][h[o].id].from = a}}

\* C19: the token of an adapter is the one it was constructed with, every READ
\* and WRITE message it sent carries that token, and (no close intervening) the
\* proxy runs all of the adapter's operations on one and the same stream.
OneTokenOneStream ==
    \A a \in Adapters :
        /\ ad[a].uuid = TokenOf(a)
        /\ \A op \in {readSuffix, writeSuffix} : \A id \in Handled(op) :
              reqs[op][id].from = a => reqs[op][id].uuid = TokenOf(a)
        /\ Cardinality(StreamsOf(a)) <= 1

\* C19, the case: a read and a write of one adapter were served on one stream
ReadAndWriteOnOneStream ==
    \E a \in Adapters : \E c \in Streams :
        /\ \E i \in 1 .. Len(conns[c].rlog) :
              reqs[readSuffix][conns[c].rlog[i].id].from = a
        /\ \E i \in 1 .. Len(conns[c].out) :
              reqs[writeSuffix][conns[c].out[i].id].from = a

\* the deadline that governs the call the adapter a is in
DeadlineOf(a) ==
    IF ad[a].op = readSuffix THEN ad[a].readDeadLine ELSE ad[a].writeDeadLine

\* C20: a Read or Write made while its deadline is the zero instant issues its
\* bus request with a positive timeout (the bus client's default), not with the
\* non-positive time.Until of the zero instant.
ZeroDeadlineUsesDefaultTimeout ==
    \A a \in Adapters :
        ad[a].pc = "wait" /\ IsZero(DeadlineOf(a)) => ad[a].rd


\* the error Read and Write return when c.nc.RequestMsg returned nats.ErrTimeout
BusTimeout == "nats request: nats: timeout"

\* C21: a Read (Write) made while the read (write) deadline is an instant in the
\* past returns 0 bytes and a timeout error.
PastDeadlineTimesOut ==
    [][\A a \in Adapters :
          (ad[a].pc = "wait" /\ ad'[a].pc = "idle" /\ DeadlineOf(a) = "past")
          => (/\ ad'[a].res.n = 0
              /\ ad'[a].res.data = ""
              /\ ad'[a].res.err = BusTimeout)]_vars

\* C21, the case: a Read whose message carried a past read deadline timed out
ReadPastDeadlineTimedOut ==
    \E a \in Adapters :
        /\ ad[a].res.op = readSuffix
        /\ reqs[readSuffix][ad[a].res.req].dl = Format("past")
        /\ ad[a].res.err = BusTimeout

\* the error of I/O on a stream that was closed
ErrClosed == "use of closed network connection"

\* C22: a READ or WRITE whose I/O failed because a CLOSE closed its stream got
\* exactly one reply, and that reply's err header carries the closed-stream error.
ClosedStreamErrorTagged ==
    \A op \in {readSuffix, writeSuffix} : \A id \in Handled(op) :
        outcome[op][id] = ErrClosed =>
            /\ Len(replies[op][id]) = 1
            /\ replies[op][id][1].err = ErrClosed

\* C23: the reply to a request that failed, in the prologue of its handler or in
\* its I/O, has the body "0" for a WRITE and an empty body for a READ or a CLOSE.
ErrorReplyBodyShape ==
    \A op \in Ops : \A id \in Handled(op) :
        outcome[op][id] \notin {"pending", "ok", "panic"} =>
            /\ Len(replies[op][id]) = 1
            /\ replies[op][id][1].data = (IF op = writeSuffix THEN "0" ELSE "")

\* C23, the case: a WRITE failed in its I/O and a READ in the parse of read-size
WriteAndReadFailed ==
    /\ \E id \in Handled(writeSuffix) :
          /\ outcome[writeSuffix][id] = "broken pipe"
          /\ replies[writeSuffix][id][1].data = "0"
    /\ \E id \in Handled(readSuffix) :
          /\ outcome[readSuffix][id] = "strconv.Atoi: parsing x"
          /\ replies[readSuffix][id][1].data = ""

\* the reply RequestMsg hands the call the adapter a is in
ReplyOf(a) == replies[ad[a].op][ad[a].req][1]

\* C24: a Read whose reply has no err header and a body longer than the buffer
\* returns (0, "message too long") and delivers no bytes.
TooLongReplyRejected ==
    [][\A a \in Adapters :
          (/\ RequestReply(a)
           /\ ad[a].op = readSuffix
           /\ ReplyOf(a).err = ""
           /\ Len(ReplyOf(a).data) > ad[a].buf)
          => (/\ ad'[a].res.n = 0
              /\ ad'[a].res.err = "message too long"
              /\ ad'[a].res.data = "")]_vars

\* C24, the case: a Read returned "message too long"
ReadGotTooLongReply ==
    \E a \in Adapters :
        /\ ad[a].res.op = readSuffix
        /\ ad[a].res.err = "message too long"
        /\ Len(replies[readSuffix][ad[a].res.req][1].data) > ad[a].res.buf

\* the bodies that are decimal integers
Decimals == {Itoa(n) : n \in AtoiRange}

\* C25: a Write returns (0, error) when the reply's err header is set; else
\* (0, error) when the body is no decimal integer; else (the integer, nil); and
\* it leaves token and deadlines as they were.
WriteReplyInterpreted ==
    [][\A a \in Adapters :
          (RequestReply(a) /\ ad[a].op = writeSuffix)
          => (/\ IF ReplyOf(a).err # ""
                 THEN ad'[a].res.n = 0 /\ ad'[a].res.err # ""
                 ELSE IF ReplyOf(a).data \notin Decimals
                 THEN ad'[a].res.n = 0 /\ ad'[a].res.err # ""
                 ELSE /\ Itoa(ad'[a].res.n) = ReplyOf(a).data
                      /\ ad'[a].res.err = ""
              /\ ad'[a].uuid = ad[a].uuid
              /\ ad'[a].readDeadLine = ad[a].readDeadLine
              /\ ad'[a].writeDeadLine = ad[a].writeDeadLine)]_vars

\* C25, the case: a Write got a reply whose body is no number
WriteGotUnparseableReply ==
    \E a \in Adapters :
        /\ ad[a].res.op = writeSuffix
        /\ ad[a].res.err = "parse write length"
        /\ replies[writeSuffix][ad[a].res.req][1].err = ""

\* C26: in every state of the adapter Close returns nil, a second Close changes
\* nothing the first has not, and Close leaves token and deadlines as they are;
\* a Close sends no message and does not wait for the bus.
CloseIdempotent ==
    /\ [](\A a \in Adapters :
            /\ AfterClose(AfterClose(ad[a])) = AfterClose(ad[a])
            /\ AfterClose(ad[a]).closeErr = ""
            /\ AfterClose(ad[a]).uuid = ad[a].uuid
            /\ AfterClose(ad[a]).readDeadLine = ad[a].readDeadLine
            /\ AfterClose(ad[a]).writeDeadLine = ad[a].writeDeadLine)
    /\ [][\A a \in Adapters :
            AdapterClose(a)
            => (/\ reqs' = reqs
                /\ replies' = replies
                /\ ad'[a].pc = "idle"
                /\ ad'[a].closeErr = ""
                /\ ad'[a].uuid = ad[a].uuid
                /\ ad'[a].readDeadLine = ad[a].readDeadLine
                /\ ad'[a].writeDeadLine = ad[a].writeDeadLine)]_vars

\* C26, the case: an adapter that was used and has a deadline set was closed
ClosedAfterUse ==
    \E a \in Adapters :
        /\ ad[a].closed
        /\ ad[a].readDeadLine = "future"
        /\ ad[a].res.op # ""

\* the newest request on the op subject
LastReq(rs, op) == rs[op][Len(rs[op])]

\* C27: SetReadDeadline(t) stores t as the read deadline and nothing else,
\* SetWriteDeadline(t) stores t as the write deadline and nothing else,
\* SetDeadline(t) stores t as both; none sends a message or changes the token;
\* and a Read (Write) serializes the stored read (write) deadline into its
\* header, from which the instant is parsed back.
DeadlinesLocalOnly ==
    [][\A a \in Adapters :
          /\ \A t \in Instants :
                /\ SetReadDeadline(a, t)
                   => (/\ ad'[a].readDeadLine = t
                       /\ ad'[a].writeDeadLine = ad[a].writeDeadLine)
                /\ SetWriteDeadline(a, t)
                   => (/\ ad'[a].writeDeadLine = t
                       /\ ad'[a].readDeadLine = ad[a].readDeadLine)
                /\ SetDeadline(a, t)
                   => (/\ ad'[a].readDeadLine = t
                       /\ ad'[a].writeDeadLine = t)
                /\ (SetReadDeadline(a, t) \/ SetWriteDeadline(a, t) \/ SetDeadline(a, t))
                   => (/\ reqs' = reqs
                       /\ ad'[a].uuid = ad[a].uuid
                       /\ ad'[a].pc = "idle")
          /\ \A n \in BufLens :
                AdapterRead(a, n)
                => (/\ LastReq(reqs', readSuffix).dl = Format(ad[a].readDeadLine)
                    /\ TimeParse(LastReq(reqs', readSuffix).dl).t = ad[a].readDeadLine)
          /\ \A b \in Payloads :
                AdapterWrite(a, b)
                => (/\ LastReq(reqs', writeSuffix).dl = Format(ad[a].writeDeadLine)
                    /\ TimeParse(LastReq(reqs', writeSuffix).dl).t = ad[a].writeDeadLine)]_vars

\* C27, the case: a Read carried the read deadline that was set while the write
\* deadline is another instant
ReadCarriedItsDeadline ==
    \E a \in Adapters : \E id \in Handled(readSuffix) :
        /\ reqs[readSuffix][id].from = a
        /\ reqs[readSuffix][id].dl = Format("future")
        /\ ad[a].writeDeadLine = "past"

\* the deadline header hdr asks for no deadline: the zero instant, or no time
NoDeadline(hdr) == ~TimeParse(hdr).ok \/ IsZero(TimeParse(hdr).t)

\* C28: when the I/O of a READ (WRITE) whose deadline header is the zero instant,
\* empty or unparseable is made, the stream has no read (write) deadline in
\* effect, whatever deadlines earlier operations put on the stream.
ZeroDeadlineMeansNone ==
    /\ (/\ h[readSuffix].pc = "io"
        /\ Live(h[readSuffix].conn.c)
        /\ NoDeadline(reqs[readSuffix][h[readSuffix].id].dl))
       => conns[h[readSuffix].conn.c].rdl = "zero"
    /\ (/\ h[writeSuffix].pc = "io"
        /\ Live(h[writeSuffix].conn.c)
        /\ NoDeadline(reqs[writeSuffix][h[writeSuffix].id].dl))
       => conns[h[writeSuffix].conn.c].wdl = "zero"

\* C29: no byte the proxy takes from the stream is lost: no bytes are taken from
\* the stream for a Read of the adapter that returns an error, a bus timeout
\* before its deadline included (bytes taken for it are returned by no Read).
NoBytesLost ==
    \A a \in Adapters :
        (/\ ad[a].res.op = readSuffix
         /\ ad[a].res.err # ""
         /\ reqs[readSuffix][ad[a].res.req].dl = Format("future"))
        => ReadsFor(ad[a].res.req) = {}

\* C30: the payloads of the Writes of an adapter reach the stream in the order of
\* the calls and at most once each: when a payload is written every earlier Write
\* request has been written or has failed, and no request is written twice.
WritesInCallOrder ==
    /\ \A c \in Streams : \A i \in 1 .. Len(conns[c].out) :
          /\ \A j \in 1 .. Len(conns[c].out) :
                i < j => conns[c].out[i].id < conns[c].out[j].id
          /\ \A id \in 1 .. (conns[c].out[i].id - 1) :
                outcome[writeSuffix][id] # "pending"
    /\ \A id \in Handled(writeSuffix) : Cardinality(WritesFor(id)) <= 1

\* C30, the case: two Writes of the adapter were written to the stream
TwoWritesWritten ==
    \E c \in Streams :
        /\ Len(conns[c].out) = 2
        /\ \A i \in 1 .. 2 : reqs[writeSuffix][conns[c].out[i].id].from \in Adapters

\* the goroutine of Start has finished for a proxy that owns its pool: the three
\* Unsubscribe calls and connPool.Close have returned, Close without an error
ShutdownFinished ==
    /\ stop.owns
    /\ stop.pc = "done"
    /\ stop.err = ""
    /\ \A op \in Ops : ~stop.subs[op]
    /\ ~crashed

\* C31: once the shutdown of a proxy that owns its pool has finished, no entry
\* of the pool wraps a live stream, also when a handler that was running at the
\* cancellation calls Get during or after the pool's Close.
NoLiveStreamAfterShutdown ==
    ShutdownFinished => \A k \in DOMAIN pool : ~Live(pool[k].c)

\* Start returned an error
StartFailed == stop.pc = "failed"

\* C32: Start is all-or-nothing: when Start has returned an error no
\* subscription it made before the failure is live.
StartAllOrNothing ==
    StartFailed => \A op \in Ops : ~stop.subs[op]

\* the handler of op is inside cp.Get
InGet(op) == h[op].pc \in {"lock", "get"}

\* the close handler is inside the Close of the stream Get gave it
InEnvelopeClose == h[closeSuffix].pc \in {"dellock", "del", "rawclose"}

\* the goroutine of Start is inside NetConnPullManager.Close
InPoolClose == stop.pc \in {"range", "dellock", "del", "rawclose"}

\* C33: the pool never deadlocks on its mutex: whoever holds cp.mu is inside the
\* body of Get or of delete, the pool's Close never holds it while it calls an
\* entry's Close, and under any interleaving every Get, every Close of a pooled
\* stream and the pool's Close eventually return.
PoolOperationsReturn ==
    /\ [](\A op \in Ops : mu = op => h[op].pc \in {"get", "del"})
    /\ [](mu = "stop" => stop.pc = "del")
    /\ \A op \in Ops : InGet(op) ~> ~InGet(op)
    /\ InEnvelopeClose ~> ~InEnvelopeClose
    /\ InPoolClose ~> ~InPoolClose

====
